---- MODULE Spec2Model ----
(***************************************************************************)
(* Model of the renderer plugin framework of qiskit-metal:                 *)
(* qiskit_metal/renderers/renderer_base/renderer_base.py, class QRenderer. *)
(*                                                                         *)
(* State: the class-level registries (__loaded_renderers__,                *)
(* __instantiated_renderers__), the class attribute element_extensions,    *)
(* the geometry-table schema registry, every design's template_options     *)
(* store, the renderer instances, and a heap of nested dict objects (so    *)
(* that aliasing between option dicts is observable).                      *)
(***************************************************************************)
EXTENDS Integers, Sequences, FiniteSets, TLC

VARIABLES
    default_options,         \* class -> its declared default_options dict
    heap,                    \* nested dict objects, by address         
    loaded_renderers,        \* QRenderer.__loaded_renderers__
    instantiated_renderers,  \* QRenderer.__instantiated_renderers__: name -> instance
    element_extensions,      \* declaring class -> element_extensions dict
    ELEMENT_COLUMNS,         \* QGeometryTables schema registry
    template_options,        \* design -> design.template_options
    lastOp,                  \* what the last call did and returned
    gathered,                \* last result of _gather_all_children_default_options
    loaders,                 \* the classes whose load() has returned True
    tasks                    \* the constructors that run concurrently, by task

vars == <<default_options, heap, loaded_renderers, instantiated_renderers,
          element_extensions, ELEMENT_COLUMNS, template_options, lastOp,
          gathered, loaders, tasks>>

----------------------------------------------------------------------------
(* Bounds *)

MaxScalar == 3          \* option scalars are 1..MaxScalar
GMaxScalar == 2         \* scalars of the drawn default_options (SpecGather)
MaxCalls == 2           \* initate calls recorded per instance

----------------------------------------------------------------------------
(* Option dicts.  A dict is a function from some of the keys to values; a  *)
(* value is a scalar [t |-> "s", v |-> n], a reference to a nested dict    *)
(* object [t |-> "d", v |-> its address in heap], or, in a dict literal of *)
(* a caller, the nested dict itself [t |-> "n", v |-> nested dict].        *)
(* An object's address names the dict it was created for:                  *)
(* <<"cls", class, "", key>>, <<"tmpl", design, class, key>>,              *)
(* <<"inst", renderer name, "", key>>, <<"arg", renderer name, "", key>>.  *)

TopKeys == {"x", "y", "z"}
NestKeys == {"a", "b"}

S(n) == [t |-> "s", v |-> n]
D(a) == [t |-> "d", v |-> a]
N(m) == [t |-> "n", v |-> m]

EmptyDict == [k \in {} |-> S(1)]
EmptyHeap == [a \in {} |-> [k \in {} |-> 1]]

\* F applied to the value of e (e is evaluated once)
Bind(e, F(_)) == CHOOSE r \in {F(x) : x \in {e}} : TRUE

\* dict.update / {**a, **b}: b's entries replace a's, key by key
Update(a, b) == [k \in (DOMAIN a) \cup (DOMAIN b) |-> IF k \in DOMAIN b THEN b[k] ELSE a[k]]

\* the value of a dict, references and literals alike
Pure(h, top) ==
    [k \in DOMAIN top |-> IF top[k].t = "d" THEN N(h[top[k].v]) ELSE top[k]]

NestedOf(h, val) == IF val.t = "d" THEN h[val.v] ELSE val.v

\* the dict top with each nested dict of the given forms placed in a new
\* object, for the dict named by base
Place(h, top, forms, base) ==
    LET ks == {k \in DOMAIN top : top[k].t \in forms}
    IN [heap |-> Update(h, [a \in {base \o <<k>> : k \in ks} |-> NestedOf(h, top[a[4]])]),
        top  |-> [k \in DOMAIN top |-> IF k \in ks THEN D(base \o <<k>>) ELSE top[k]]]

\* copy.deepcopy of a dict: every nested dict is copied into a new object
DeepCopy(h, top, base) == Place(h, top, {"d", "n"}, base)

\* a dict literal of the caller becomes objects: its nested dicts are new
\* objects
Intern(h, top, base) == Place(h, top, {"n"}, base)

\* the objects a dict refers to
RefsOf(top) == {top[k].v : k \in {j \in DOMAIN top : top[j].t = "d"}}

----------------------------------------------------------------------------
(* The renderer classes.  QRenderer is the base; R1 to R5 are backends      *)
(* written against it: R2 is a subclass of R1; R3 and R4 do not overwrite  *)
(* element_extensions; R5 declares the name that R1 declares.              *)

Classes == {"QRenderer", "R1", "R2", "R3", "R4", "R5"}

\* inspect.getmro(cls)
getmro(cls) ==
    CASE cls = "QRenderer" -> <<"QRenderer", "object">>
      [] cls = "R1" -> <<"R1", "QRenderer", "object">>
      [] cls = "R2" -> <<"R2", "R1", "QRenderer", "object">>
      [] cls = "R3" -> <<"R3", "QRenderer", "object">>
      [] cls = "R4" -> <<"R4", "QRenderer", "object">>
      [] cls = "R5" -> <<"R5", "QRenderer", "object">>

\* hasattr(child, 'default_options'): the attribute is found on the class or
\* on one of its bases
HasDefaultOptions(child) ==
    child /= "object" /\
    \E i \in 1..Len(getmro(child)) : getmro(child)[i] \in DOMAIN default_options

\* child.default_options: the first class of the MRO that declares it
GetDefaultOptions(child) ==
    LET m == getmro(child)
        i == CHOOSE j \in 1..Len(m) :
                 /\ m[j] \in DOMAIN default_options
                 /\ \A l \in 1..(j-1) : m[l] \notin DOMAIN default_options
    IN default_options[m[i]]

\* (variant: parents[0:len(parents)-1], from cls up to the class below object)
GatherOrderDerivedFirst(cls) ==
    LET parents == getmro(cls)
    IN [i \in 1..(Len(parents)-1) |-> parents[i]]

\* parents[len(parents)-2::-1] : from the class below object down to cls
GatherOrder(cls) ==
    LET parents == getmro(cls)
        n == Len(parents)
    IN [i \in 1..(n-1) |-> parents[n - i]]

\* (variant: {**child.default_options, **options_from_children}, the values
\* gathered so far are kept)
RECURSIVE GatherFromKeepingFirst(_, _, _)
GatherFromKeepingFirst(order, i, acc) ==
    IF i > Len(order) THEN acc
    ELSE Bind(IF HasDefaultOptions(order[i])
              THEN Update(GetDefaultOptions(order[i]), acc)
              ELSE acc,
              LAMBDA options_from_children :
                  GatherFromKeepingFirst(order, i + 1, options_from_children))

\* the loop of _gather_all_children_default_options
RECURSIVE GatherFrom(_, _, _)
GatherFrom(order, i, acc) ==
    IF i > Len(order) THEN acc
    ELSE Bind(IF HasDefaultOptions(order[i])
              THEN Update(acc, GetDefaultOptions(order[i]))
              ELSE acc,
              LAMBDA options_from_children :
                  GatherFrom(order, i + 1, options_from_children))

gather_all_children_default_options(cls) ==
    GatherFrom(GatherOrder(cls), 1, EmptyDict)

----------------------------------------------------------------------------
(* Class attributes of the backends *)

\* cls.name ('base' unless the class overwrites it)
name(cls) ==
    CASE cls = "QRenderer" -> "base"
      [] cls = "R1" -> "r1"
      [] cls = "R2" -> "r2"
      [] cls = "R3" -> "r3"
      [] cls = "R4" -> "r4"
      [] cls = "R5" -> "r1"

RendererNames == {name(c) : c \in Classes}

\* f'{cls.__module__}.{cls.__name__}'
get_unique_class_name(cls) == "renderers." \o cls

\* the class whose element_extensions dict cls.element_extensions is:
\* R1, R2 and R5 overwrite the attribute, R3 and R4 use the dict of QRenderer
ExtOwner(cls) ==
    CASE cls = "QRenderer" -> "QRenderer"
      [] cls = "R1" -> "R1"
      [] cls = "R2" -> "R2"
      [] cls = "R3" -> "QRenderer"
      [] cls = "R4" -> "QRenderer"
      [] cls = "R5" -> "R5"

Tables == {"path", "poly"}
Kinds == {"str", "int", "float", "bool"}

EmptyCols == [c \in {} |-> "int"]
EmptyTables == [t \in {} |-> EmptyCols]

\* an example value of element_table_data: a Python value and its type
Example(ty, val) == [ty |-> ty, val |-> val]

\* cls.element_table_data (table -> column -> example value)
element_table_data(cls) ==
    CASE cls = "QRenderer" -> [t \in {} |-> [c \in {} |-> Example("int", 0)]]
      [] cls = "R1" -> [t \in {"path"} |-> [c \in {"width"} |-> Example("float", 1)]]
      [] cls = "R2" -> [t \in {"path"} |-> [c \in {"width"} |-> Example("int", 1)]]
      [] cls = "R3" -> [t \in {"poly"} |-> [c \in {"layer"} |-> Example("int", 2)]]
      [] cls = "R4" -> [t \in {"path"} |-> [c \in {"color"} |-> Example("str", 1)]]
      [] cls = "R5" -> [t \in {"path"} |-> [c \in {"width"} |-> Example("int", 1)]]

\* type(col_value)
type(col_value) == col_value.ty

\* populate_element_extentions: the new value of the dict cls.element_extensions
populate_element_extentions(ext, cls) ==
    LET td == element_table_data(cls)
    IN Update(ext, [table \in DOMAIN td |->
                       [col_name \in DOMAIN td[table] |-> type(td[table][col_name])]])

----------------------------------------------------------------------------
(* QGeometryTables.add_renderer_extension: the schema registry.  A column  *)
(* of a category is recorded with its kind and the identity that claimed   *)
(* it; a column claimed by another identity is a collision.                *)

NoColumns == [c \in {} |-> [kind |-> "int", owner |-> "base"]]

SchemaCollision(schema, renderer_name, elements) ==
    \E table \in DOMAIN elements : \E col \in DOMAIN elements[table] :
        /\ table \in DOMAIN schema
        /\ col \in DOMAIN schema[table]
        /\ schema[table][col].owner /= renderer_name

add_renderer_extension(schema, renderer_name, elements) ==
    [table \in (DOMAIN schema) \cup (DOMAIN elements) |->
        LET old == IF table \in DOMAIN schema THEN schema[table] ELSE NoColumns
            new == IF table \in DOMAIN elements
                   THEN [col \in DOMAIN elements[table] |->
                           [kind |-> elements[table][col], owner |-> renderer_name]]
                   ELSE NoColumns
        IN Update(old, new)]

\* Columns(category): column name -> kind
Columns(schema, table) ==
    IF table \in DOMAIN schema
    THEN [col \in DOMAIN schema[table] |-> schema[table][col].kind]
    ELSE EmptyCols

----------------------------------------------------------------------------
(* Observation of the last call *)

\* a call made by the operation, and how it ended
Call(method, outcome) == [call |-> method, outcome |-> outcome]

NoArg == [given |-> FALSE, d |-> EmptyDict]
Arg(d) == [given |-> TRUE, d |-> d]
\* an argument that is not a mapping (a number)
Scalar(v) == [given |-> TRUE, d |-> EmptyDict, scalar |-> v]
IsMapping(arg) == "scalar" \notin DOMAIN arg

\* a call made on a component or an element
CallOn(method, on, outcome) == [call |-> method, outcome |-> outcome, on |-> on]

\* the call logger_.error of get_template_options, if it was made
Logged(logged) == IF logged THEN <<Call("logger.error", "ok")>> ELSE <<>>

Op(op, cls, inst, design, pre, calls, result, ret, arg) ==
    [op |-> op, cls |-> cls, inst |-> inst, design |-> design, pre |-> pre,
     calls |-> calls, result |-> result, ret |-> ret, arg |-> arg, obj |-> 0,
     opts |-> NoArg, on |-> "", sel |-> <<>>]

NoOp == Op("none", "QRenderer", "", "none", FALSE, <<>>, "None", EmptyDict, NoArg)

----------------------------------------------------------------------------
(* QRenderer.load *)

\* (variant: a collision is caught and the extension registered all the same)
loadIgnoringCollision(cls) ==
    LET nm == name(cls)
        wasLoaded == nm \in loaded_renderers
        owner == ExtOwner(cls)
        ext == populate_element_extentions(element_extensions[owner], cls)
    IN /\ element_extensions' = [element_extensions EXCEPT ![owner] = ext]
       /\ ELEMENT_COLUMNS' = add_renderer_extension(ELEMENT_COLUMNS, nm, ext)
       /\ loaded_renderers' = loaded_renderers \cup {nm}
       /\ loaders' = loaders \cup {cls}
       /\ UNCHANGED tasks
       /\ lastOp' = Op("load", cls, "", "none", wasLoaded,
                       <<Call("populate_element_extentions", "ok"),
                         Call("add_renderer_extension", "ok")>>,
                       "True", EmptyDict, NoArg)
       /\ UNCHANGED <<default_options, heap, instantiated_renderers,
                      template_options, gathered>>

load(cls) ==
    LET nm == name(cls)
        wasLoaded == nm \in loaded_renderers
        owner == ExtOwner(cls)
        ext == populate_element_extentions(element_extensions[owner], cls)
        collision == SchemaCollision(ELEMENT_COLUMNS, nm, ext)
    IN /\ element_extensions' = [element_extensions EXCEPT ![owner] = ext]
       /\ IF collision
          THEN /\ UNCHANGED <<ELEMENT_COLUMNS, loaded_renderers, loaders, tasks>>
               /\ lastOp' = Op("load", cls, "", "none", wasLoaded,
                               <<Call("populate_element_extentions", "ok"),
                                 Call("add_renderer_extension", "SchemaCollision")>>,
                               "SchemaCollision", EmptyDict, NoArg)
          ELSE /\ ELEMENT_COLUMNS' = add_renderer_extension(ELEMENT_COLUMNS, nm, ext)
               /\ loaded_renderers' = loaded_renderers \cup {nm}
               /\ loaders' = loaders \cup {cls}
               /\ UNCHANGED tasks
               /\ lastOp' = Op("load", cls, "", "none", wasLoaded,
                               <<Call("populate_element_extentions", "ok"),
                                 Call("add_renderer_extension", "ok")>>,
                               "True", EmptyDict, NoArg)
       /\ UNCHANGED <<default_options, heap, instantiated_renderers,
                      template_options, gathered>>

----------------------------------------------------------------------------
(* Designs and instances *)

Designs == {"d1", "d2"}
NonDesigns == {"notadesign"}

\* a design whose template_options store rejects every write
RejectingDesigns == {"d3"}

\* qiskit_metal.designs.is_design
is_design(design) == design \in Designs \cup RejectingDesigns

\* design.template_options[key] = value
StoreSet(design, store, key, value) ==
    IF design \in RejectingDesigns THEN store
    ELSE Update(store, [k \in {key} |-> value])

\* Dict(design.template_options[key]): the entry, or an empty dict when the
\* store has none
StoreGet(store, key) == IF key \in DOMAIN store THEN store[key] ELSE EmptyDict

\* the methods of QRenderer that a backend class overwrites
Overrides(cls) ==
    CASE cls = "QRenderer" -> {}
      [] cls = "R1" -> {"_initate_renderer", "render_chips", "render_components"}
      [] cls = "R2" -> {"_initate_renderer", "render_chips", "render_components"}
      [] cls = "R3" -> {"render_chips"}
      [] cls = "R4" -> {}
      [] cls = "R5" -> {"render_chips", "render_chip", "render_components",
                        "render_component", "render_element_path",
                        "render_element_poly"}

\* (variant: the base render_components and render_component are empty
\* methods that return None)
OutcomesEmptyBase(cls, method) ==
    IF method \in Overrides(cls) THEN {"ok", "raise"}
    ELSE IF method \in {"_initate_renderer", "render_components", "render_component"}
    THEN {"ok"}
    ELSE {"NotImplementedError"}

\* what a call of a method can do: the base _initate_renderer returns True,
\* the other base methods raise NotImplementedError, a backend's own method
\* returns or raises
Outcomes(cls, method) ==
    IF method \in Overrides(cls) THEN {"ok", "raise"}
    ELSE IF method = "_initate_renderer" THEN {"ok"}
    ELSE {"NotImplementedError"}

\* the identity of a new object: one that no registered instance has
NewId ==
    LET used == {instantiated_renderers[n].id : n \in DOMAIN instantiated_renderers}
    IN CHOOSE i \in 1..(Cardinality(used) + 1) :
           i \notin used /\ \A j \in 1..(i-1) : j \in used

\* a renderer object after the first statements of __init__
NewRenderer(cls, design) ==
    [id |-> NewId, cls |-> cls, design |-> design, status |-> "Not Init",
     initiated |-> FALSE, options |-> EmptyDict, hookRuns |-> 0, log |-> <<>>]

\* (variant: the latch is never set)
initateWithoutLatch(self, re_initiate, outcome) ==
    IF ~re_initiate /\ self.initiated
    THEN [self |-> [self EXCEPT !.log = Append(@, [force |-> re_initiate, hook |-> "none",
                                                   result |-> "False"])],
          result |-> "False", calls |-> <<>>]
    ELSE LET res == IF outcome = "ok" THEN "True" ELSE "HookRaised"
         IN [self |-> [self EXCEPT !.hookRuns = @ + 1,
                                   !.log = Append(@, [force |-> re_initiate,
                                                      hook |-> outcome, result |-> res])],
             result |-> res, calls |-> <<Call("_initate_renderer", outcome)>>]

\* (variant: the latch is set once the hook has returned)
initateLatchAfterHook(self, re_initiate, outcome) ==
    IF ~re_initiate /\ self.initiated
    THEN [self |-> [self EXCEPT !.log = Append(@, [force |-> re_initiate, hook |-> "none",
                                                   result |-> "False"])],
          result |-> "False", calls |-> <<>>]
    ELSE LET res == IF outcome = "ok" THEN "True" ELSE "HookRaised"
         IN [self |-> [self EXCEPT !.initiated = (@ \/ outcome = "ok"),
                                   !.hookRuns = @ + 1,
                                   !.log = Append(@, [force |-> re_initiate,
                                                      hook |-> outcome, result |-> res])],
             result |-> res, calls |-> <<Call("_initate_renderer", outcome)>>]

\* QRenderer.initate.  outcome is what the hook _initate_renderer does; the
\* log of the instance records every call: whether it was forced, what the
\* hook did ("none" when it was not run) and what the caller got
initate(self, re_initiate, outcome) ==
    IF ~re_initiate /\ self.initiated
    THEN [self |-> [self EXCEPT !.log = Append(@, [force |-> re_initiate, hook |-> "none",
                                                   result |-> "False"])],
          result |-> "False", calls |-> <<>>]
    ELSE LET res == IF outcome = "ok" THEN "True" ELSE "HookRaised"
         IN [self |-> [self EXCEPT !.initiated = TRUE,
                                   !.hookRuns = @ + 1,
                                   !.log = Append(@, [force |-> re_initiate,
                                                      hook |-> outcome, result |-> res])],
             result |-> res, calls |-> <<Call("_initate_renderer", outcome)>>]

Falsy(arg) ==
    \/ ~arg.given
    \/ IsMapping(arg) /\ DOMAIN arg.d = {}
    \/ ~IsMapping(arg) /\ arg.scalar = 0

\* QRenderer._register_class_with_design; store is design.template_options
register_class_with_design(h, store, cls, design, template_key, render_template) ==
    IF template_key \notin DOMAIN store
    THEN Bind(IF Falsy(render_template)
              THEN gather_all_children_default_options(cls)
              ELSE render_template.d,
              LAMBDA tmpl :
                  Bind(DeepCopy(h, tmpl, <<"tmpl", design, cls>>),
                       LAMBDA c : [heap |-> c.heap,
                                   store |-> StoreSet(design, store, template_key, c.top)]))
    ELSE [heap |-> h, store |-> store]

\* (variant: a render_template that is given replaces the stored entry)
get_template_options_overwriting(h, store, cls, design, render_template, at) ==
    LET template_key == get_unique_class_name(cls)
    IN Bind(IF template_key \notin DOMAIN store
            THEN register_class_with_design(h, store, cls, design, template_key,
                                            render_template)
            ELSE IF Falsy(render_template) THEN [heap |-> h, store |-> store]
            ELSE Bind(DeepCopy(h, render_template.d, <<"tmpl", design, cls>>),
                      LAMBDA t : [heap |-> t.heap,
                                  store |-> Update(store, [k \in {template_key} |-> t.top])]),
            LAMBDA r :
                Bind(DeepCopy(r.heap, StoreGet(r.store, template_key), at),
                     LAMBDA c : [heap |-> c.heap, store |-> r.store, options |-> c.top,
                                 logged |-> template_key \notin DOMAIN r.store]))

\* (variant: the stored entry is returned without deepcopy)
get_template_options_aliasing(h, store, cls, design, render_template, at) ==
    LET template_key == get_unique_class_name(cls)
    IN Bind(IF template_key \notin DOMAIN store
            THEN register_class_with_design(h, store, cls, design, template_key,
                                            render_template)
            ELSE [heap |-> h, store |-> store],
            LAMBDA r : [heap |-> r.heap, store |-> r.store,
                        options |-> StoreGet(r.store, template_key),
                        logged |-> template_key \notin DOMAIN r.store])

\* (variant: a missing entry is not logged)
get_template_options_silent(h, store, cls, design, render_template, at) ==
    LET template_key == get_unique_class_name(cls)
    IN Bind(IF template_key \notin DOMAIN store
            THEN register_class_with_design(h, store, cls, design, template_key,
                                            render_template)
            ELSE [heap |-> h, store |-> store],
            LAMBDA r :
                Bind(DeepCopy(r.heap, StoreGet(r.store, template_key), at),
                     LAMBDA c : [heap |-> c.heap, store |-> r.store, options |-> c.top,
                                 logged |-> FALSE]))

\* QRenderer.get_template_options; the copy it returns is made for the dict
\* named by at; logged tells whether logger_.error was called (the key is
\* still not in the store after the registration)
get_template_options(h, store, cls, design, render_template, at) ==
    LET template_key == get_unique_class_name(cls)
    IN Bind(IF template_key \notin DOMAIN store
            THEN register_class_with_design(h, store, cls, design, template_key,
                                            render_template)
            ELSE [heap |-> h, store |-> store],
            LAMBDA r :
                Bind(DeepCopy(r.heap, StoreGet(r.store, template_key), at),
                     LAMBDA c : [heap |-> c.heap, store |-> r.store, options |-> c.top,
                                 logged |-> template_key \notin DOMAIN r.store]))

\* QRenderer.update_options; store is self.design.template_options
update_options(h, store, self, render_options, render_template) ==
    Bind(get_template_options(h, store, self.cls, self.design, render_template,
                              <<"inst", name(self.cls), "">>),
         LAMBDA t :
             IF Falsy(render_options)
             THEN [heap |-> t.heap, store |-> t.store, logged |-> t.logged,
                   options |-> Update(self.options, t.options), template |-> t.options,
                   error |-> "none"]
             ELSE IF ~IsMapping(render_options)
             THEN [heap |-> t.heap, store |-> t.store, logged |-> t.logged,
                   options |-> Update(self.options, t.options), template |-> t.options,
                   error |-> "TypeError"]
             ELSE Bind(Intern(t.heap, render_options.d, <<"arg", name(self.cls), "">>),
                       LAMBDA ro : [heap |-> ro.heap, store |-> t.store,
                                    logged |-> t.logged,
                                    options |-> Update(Update(self.options, t.options),
                                                       ro.top),
                                    template |-> t.options,
                                    error |-> "none"]))

----------------------------------------------------------------------------
(* Initial state: nothing loaded, nothing instantiated.  R1 declares       *)
(* default_options {x: 1, y: {a: 1}}, its subclass R2 {y: {b: 2}, z: 3}.   *)

DeclR1 == [k \in {"x", "y"} |-> IF k = "x" THEN S(1) ELSE N([n \in {"a"} |-> 1])]
DeclR2 == [k \in {"y", "z"} |-> IF k = "z" THEN S(3) ELSE N([n \in {"b"} |-> 2])]

\* the class attributes default_options as objects; decl gives the dict
\* literal of every class that declares the attribute
ClassDicts(decl) ==
    LET i1 == Intern(EmptyHeap, IF "R1" \in DOMAIN decl THEN decl["R1"] ELSE EmptyDict,
                     <<"cls", "R1", "">>)
        i2 == Intern(i1.heap, IF "R2" \in DOMAIN decl THEN decl["R2"] ELSE EmptyDict,
                     <<"cls", "R2", "">>)
    IN [heap |-> i2.heap,
        default_options |-> [c \in DOMAIN decl |-> IF c = "R1" THEN i1.top ELSE i2.top]]

Declared == [c \in {"R1", "R2"} |-> IF c = "R1" THEN DeclR1 ELSE DeclR2]

\* the tasks of the host application that construct renderers concurrently
Tasks == {"t1", "t2"}

IdleTask ==
    [pc |-> "idle", self |-> NewRenderer("QRenderer", "d1"), arg |-> NoArg,
     tmpl |-> EmptyDict, copy |-> EmptyDict, wrote |-> 0, after |-> {}]

InitRegistries ==
    /\ loaded_renderers = {}
    /\ instantiated_renderers = [n \in {} |-> NewRenderer("QRenderer", "d1")]
    /\ element_extensions = [c \in {"QRenderer", "R1", "R2", "R5"} |-> EmptyTables]
    /\ ELEMENT_COLUMNS = [t \in Tables |-> NoColumns]
    /\ template_options = [d \in Designs \cup RejectingDesigns |-> [k \in {} |-> EmptyDict]]
    /\ lastOp = NoOp
    /\ loaders = {}
    /\ gathered = [cls |-> "object", options |-> EmptyDict]
    /\ tasks = [t \in Tasks |-> IdleTask]

Init ==
    /\ default_options = ClassDicts(Declared).default_options
    /\ heap = ClassDicts(Declared).heap
    /\ InitRegistries

----------------------------------------------------------------------------
(* The objects that are still referenced after a call (by a class, a       *)
(* design's template store or a registered instance) are kept; the others  *)
(* are freed.  An instance that another one replaces in                    *)
(* __instantiated_renderers__ is dropped by the application.               *)

LiveRefs(to, ir) ==
    UNION ({RefsOf(default_options[c]) : c \in DOMAIN default_options}
           \cup UNION {{RefsOf(to[d][k]) : k \in DOMAIN to[d]} : d \in DOMAIN to}
           \cup {RefsOf(ir[n].options) : n \in DOMAIN ir})

Collect(h, to, ir) ==
    [heap |-> [a \in LiveRefs(to, ir) |-> h[a]],
     template_options |-> to,
     instantiated_renderers |-> ir]

----------------------------------------------------------------------------
(* Calls *)

\* render_template and render_options as the callers pass them
TemplateArgs ==
    {NoArg, Arg(EmptyDict), Arg([k \in {"y"} |-> N([n \in {"a"} |-> 2])])}

OptionArgs ==
    {NoArg, Arg([k \in {"y"} |-> N([n \in {"b"} |-> 1])])}

\* the values the user writes into options: those above the declared ones
WriteVals == {v \in 1..MaxScalar : v > 2}

HasTemplate(design, cls) ==
    get_unique_class_name(cls) \in DOMAIN template_options[design]

\* (variant: __instantiated_renderers__.setdefault(self.name, self), an
\* instance that is registered stays)
constructKeepingFirst(cls, design, initiate_, render_template, render_options, outcome) ==
    \E i \in {IF initiate_ THEN initate(NewRenderer(cls, design), FALSE, outcome)
              ELSE [self |-> NewRenderer(cls, design), result |-> "None", calls |-> <<>>]} :
       IF i.result = "HookRaised"
       THEN /\ lastOp' = Op("__init__", cls, "", design, HasTemplate(design, cls),
                            i.calls, "HookRaised", EmptyDict, render_template)
            /\ UNCHANGED <<heap, instantiated_renderers, template_options>>
       ELSE \E u \in {update_options(heap, template_options[design], i.self,
                                     render_options, render_template)} :
            \E g \in {Collect(u.heap,
                              [template_options EXCEPT ![design] = u.store],
                              Update([n \in {name(cls)} |->
                                         [i.self EXCEPT !.options = u.options,
                                                        !.status =
                                                            IF u.error = "none"
                                                            THEN "Init Completed"
                                                            ELSE "Not Init"]],
                                     instantiated_renderers))} :
               /\ instantiated_renderers' = g.instantiated_renderers
               /\ heap' = g.heap
               /\ template_options' = g.template_options
               /\ lastOp' = [Op("__init__", cls,
                                  IF u.error = "none" THEN name(cls) ELSE "", design,
                                  HasTemplate(design, cls), i.calls \o Logged(u.logged),
                                  IF u.error = "none" THEN "ok" ELSE u.error,
                                  Pure(u.heap, u.template), render_template)
                               EXCEPT !.obj = i.self.id, !.opts = render_options]

\* (variant: status becomes 'Init Completed' only when initate was called)
constructStatusByInitiate(cls, design, initiate_, render_template, render_options, outcome) ==
    \E i \in {IF initiate_ THEN initate(NewRenderer(cls, design), FALSE, outcome)
              ELSE [self |-> NewRenderer(cls, design), result |-> "None", calls |-> <<>>]} :
       IF i.result = "HookRaised"
       THEN /\ lastOp' = Op("__init__", cls, "", design, HasTemplate(design, cls),
                            i.calls, "HookRaised", EmptyDict, render_template)
            /\ UNCHANGED <<heap, instantiated_renderers, template_options>>
       ELSE \E u \in {update_options(heap, template_options[design], i.self,
                                     render_options, render_template)} :
            \E g \in {Collect(u.heap,
                              [template_options EXCEPT ![design] = u.store],
                              Update(instantiated_renderers,
                                     [n \in {name(cls)} |->
                                         [i.self EXCEPT !.options = u.options,
                                                        !.status =
                                                            IF u.error = "none" /\ initiate_
                                                            THEN "Init Completed"
                                                            ELSE "Not Init"]]))} :
               /\ instantiated_renderers' = g.instantiated_renderers
               /\ heap' = g.heap
               /\ template_options' = g.template_options
               /\ lastOp' = [Op("__init__", cls,
                                  IF u.error = "none" THEN name(cls) ELSE "", design,
                                  HasTemplate(design, cls), i.calls \o Logged(u.logged),
                                  IF u.error = "none" THEN "ok" ELSE u.error,
                                  Pure(u.heap, u.template), render_template)
                               EXCEPT !.obj = i.self.id, !.opts = render_options]

\* QRenderer.__init__ after the assertion on design
construct(cls, design, initiate_, render_template, render_options, outcome) ==
    \E i \in {IF initiate_ THEN initate(NewRenderer(cls, design), FALSE, outcome)
              ELSE [self |-> NewRenderer(cls, design), result |-> "None", calls |-> <<>>]} :
       IF i.result = "HookRaised"
       THEN /\ lastOp' = Op("__init__", cls, "", design, HasTemplate(design, cls),
                            i.calls, "HookRaised", EmptyDict, render_template)
            /\ UNCHANGED <<heap, instantiated_renderers, template_options>>
       ELSE \E u \in {update_options(heap, template_options[design], i.self,
                                     render_options, render_template)} :
            \E g \in {Collect(u.heap,
                              [template_options EXCEPT ![design] = u.store],
                              Update(instantiated_renderers,
                                     [n \in {name(cls)} |->
                                         [i.self EXCEPT !.options = u.options,
                                                        !.status =
                                                            IF u.error = "none"
                                                            THEN "Init Completed"
                                                            ELSE "Not Init"]]))} :
               /\ instantiated_renderers' = g.instantiated_renderers
               /\ heap' = g.heap
               /\ template_options' = g.template_options
               /\ lastOp' = [Op("__init__", cls,
                                  IF u.error = "none" THEN name(cls) ELSE "", design,
                                  HasTemplate(design, cls), i.calls \o Logged(u.logged),
                                  IF u.error = "none" THEN "ok" ELSE u.error,
                                  Pure(u.heap, u.template), render_template)
                               EXCEPT !.obj = i.self.id, !.opts = render_options]

\* (variant: the instance is registered before the design is checked)
initCheckingLate(cls, design, initiate_, render_template, render_options, outcome) ==
    /\ IF ~is_design(design)
       THEN /\ lastOp' = Op("__init__", cls, "", design, FALSE, <<>>, "AssertionError",
                            EmptyDict, render_template)
            /\ instantiated_renderers' =
                   Update(instantiated_renderers,
                          [n \in {name(cls)} |-> NewRenderer(cls, design)])
            /\ UNCHANGED <<heap, template_options>>
       ELSE construct(cls, design, initiate_, render_template, render_options, outcome)
    /\ UNCHANGED <<default_options, loaded_renderers, element_extensions,
                   ELEMENT_COLUMNS, gathered, loaders, tasks>>

\* QRenderer.__init__
init(cls, design, initiate_, render_template, render_options, outcome) ==
    /\ IF ~is_design(design)
       THEN /\ lastOp' = Op("__init__", cls, "", design, FALSE, <<>>, "AssertionError",
                            EmptyDict, render_template)
            /\ UNCHANGED <<heap, instantiated_renderers, template_options>>
       ELSE construct(cls, design, initiate_, render_template, render_options, outcome)
    /\ UNCHANGED <<default_options, loaded_renderers, element_extensions,
                   ELEMENT_COLUMNS, gathered, loaders, tasks>>

\* QRenderer.update_options called on an instance
UpdateOptions(id, render_options, render_template) ==
    \E self \in {instantiated_renderers[id]} :
    \E u \in {update_options(heap, template_options[self.design], self,
                             render_options, render_template)} :
    \E g \in {Collect(u.heap, [template_options EXCEPT ![self.design] = u.store],
                      [instantiated_renderers EXCEPT ![id].options = u.options])} :
       /\ heap' = g.heap
       /\ template_options' = g.template_options
       /\ instantiated_renderers' = g.instantiated_renderers
       /\ lastOp' = [Op("update_options", self.cls, id, self.design,
                          HasTemplate(self.design, self.cls), Logged(u.logged),
                          IF u.error = "none" THEN "ok" ELSE u.error,
                          Pure(u.heap, u.template), render_template)
                       EXCEPT !.obj = self.id, !.opts = render_options]
       /\ UNCHANGED <<default_options, loaded_renderers, element_extensions,
                      ELEMENT_COLUMNS, gathered, loaders, tasks>>

\* QRenderer.initate called on an instance
Initate(id, re_initiate, outcome) ==
    \E self \in {instantiated_renderers[id]} :
    \E i \in {initate(self, re_initiate, outcome)} :
       /\ Len(self.log) < MaxCalls
       /\ instantiated_renderers' = [instantiated_renderers EXCEPT ![id] = i.self]
       /\ lastOp' = Op("initate", self.cls, id, self.design, self.initiated, i.calls,
                       i.result, EmptyDict, [given |-> re_initiate, d |-> EmptyDict])
       /\ UNCHANGED <<default_options, heap, loaded_renderers, element_extensions,
                      ELEMENT_COLUMNS, template_options, gathered, loaders, tasks>>

\* (variant: the components are rendered first, and whatever the chips do)
render_designComponentsFirst(self, o_init, o_chips, o_comps) ==
    LET i == initate(self, FALSE, o_init)
        comps == IF i.result = "HookRaised" THEN <<>>
                 ELSE <<Call("render_components", o_comps)>>
        chips == IF i.result /= "HookRaised" /\ o_comps = "ok"
                 THEN <<Call("render_chips", o_chips)>> ELSE <<>>
    IN [self |-> i.self,
        calls |-> <<Call("initate", i.result)>> \o i.calls \o comps \o chips,
        result |-> IF i.result = "HookRaised" THEN "HookRaised"
                   ELSE IF o_comps /= "ok" THEN o_comps
                   ELSE IF o_chips /= "ok" THEN o_chips
                   ELSE "None"]

\* the calls render_design makes, in order, given what each call does
render_design(self, o_init, o_chips, o_comps) ==
    LET i == initate(self, FALSE, o_init)
        chips == IF i.result = "HookRaised" THEN <<>>
                 ELSE <<Call("render_chips", o_chips)>>
        comps == IF i.result /= "HookRaised" /\ o_chips = "ok"
                 THEN <<Call("render_components", o_comps)>> ELSE <<>>
    IN [self |-> i.self,
        calls |-> <<Call("initate", i.result)>> \o i.calls \o chips \o comps,
        result |-> IF i.result = "HookRaised" THEN "HookRaised"
                   ELSE IF o_chips /= "ok" THEN o_chips
                   ELSE IF o_comps /= "ok" THEN o_comps
                   ELSE "None"]

\* QRenderer.render_design called on an instance
RenderDesign(id, o_init, o_chips, o_comps) ==
    \E self \in {instantiated_renderers[id]} :
    \E r \in {render_design(self, o_init, o_chips, o_comps)} :
       /\ Len(self.log) < MaxCalls
       /\ instantiated_renderers' = [instantiated_renderers EXCEPT ![id] = r.self]
       /\ lastOp' = Op("render_design", self.cls, id, self.design, self.initiated,
                       r.calls, r.result, EmptyDict, NoArg)
       /\ UNCHANGED <<default_options, heap, loaded_renderers, element_extensions,
                      ELEMENT_COLUMNS, template_options, gathered, loaders, tasks>>

\* the components of a design, in the order the design holds them
Components == <<"c1", "c2">>

\* the selections a caller passes (none, or no component: <<>>)
Selections == {<<>>, <<"c1">>, <<"c2">>, <<"c1", "c2">>, <<"c2", "c1">>}

\* (variant: the components selected are rendered in the order of the design)
backend_render_componentsDesignOrder(selection, failAt, how) ==
    LET pos == {i \in 1..Len(Components) :
                   selection = <<>> \/ \E j \in 1..Len(selection) : selection[j] = Components[i]}
        todo == [k \in 1..Cardinality(pos) |->
                    Components[CHOOSE i \in pos : Cardinality({j \in pos : j < i}) = k - 1]]
        n == IF failAt \in 1..Len(todo) THEN failAt ELSE Len(todo)
    IN [calls |-> [i \in 1..n |-> CallOn("render_component", todo[i],
                                         IF i = failAt THEN how ELSE "ok")],
        result |-> IF failAt \in 1..Len(todo) THEN how ELSE "None"]

\* render_components as a backend writes it: every component of the design
\* when the selection is empty, else the components selected, in the order
\* given; the call of render_component at position failAt ends as how says
\* and ends the rendering (failAt = 0: every call returns)
backend_render_components(selection, failAt, how) ==
    LET todo == IF selection = <<>> THEN Components ELSE selection
        n == IF failAt \in 1..Len(todo) THEN failAt ELSE Len(todo)
    IN [calls |-> [i \in 1..n |-> CallOn("render_component", todo[i],
                                         IF i = failAt THEN how ELSE "ok")],
        result |-> IF failAt \in 1..Len(todo) THEN how ELSE "None"]

\* QRenderer.render_components, or the method of the backend that
\* overwrites it
render_components(self, selection, failAt, how) ==
    IF "render_components" \in Overrides(self.cls)
    THEN backend_render_components(selection, failAt, how)
    ELSE [calls |-> <<>>, result |-> CHOOSE o \in Outcomes(self.cls, "render_components") : TRUE]

\* render_components called on an instance
RenderComponents(id, selection, failAt) ==
    \E self \in {instantiated_renderers[id]} :
    \E how \in Outcomes(self.cls, "render_component") :
    \E r \in {render_components(self, selection, failAt, how)} :
       /\ (failAt = 0) = (how = "ok")
       /\ lastOp' = [Op("render_components", self.cls, id, self.design, self.initiated,
                          r.calls, IF r.result = "ok" THEN "None" ELSE r.result,
                          EmptyDict, NoArg)
                       EXCEPT !.obj = self.id, !.sel = selection]
       /\ UNCHANGED <<default_options, heap, loaded_renderers, instantiated_renderers,
                      element_extensions, ELEMENT_COLUMNS, template_options, gathered,
                      loaders, tasks>>

\* the rendering methods that a backend must overwrite
HookMethods == {"render_chips", "render_chip", "render_component",
                "render_element_path", "render_element_poly"}

\* one of the rendering methods called on an instance
CallHook(id, method) ==
    \E self \in {instantiated_renderers[id]} :
    \E outcome \in Outcomes(self.cls, method) :
       /\ lastOp' = [Op("hook", self.cls, id, self.design, self.initiated,
                          <<Call(method, outcome)>>,
                          IF outcome = "ok" THEN "None" ELSE outcome, EmptyDict, NoArg)
                       EXCEPT !.obj = self.id, !.on = method]
       /\ UNCHANGED <<default_options, heap, loaded_renderers, instantiated_renderers,
                      element_extensions, ELEMENT_COLUMNS, template_options, gathered,
                      loaders, tasks>>

\* the categories of the elements passed to render_element
Categories == {"path", "poly", "junction"}

\* QRenderer.render_element: raise NotImplementedError(), whatever the
\* element is
render_element(self, category) ==
    [calls |-> <<>>, result |-> "NotImplementedError"]

\* render_element called on an instance
RenderElement(id, category) ==
    \E self \in {instantiated_renderers[id]} :
    \E r \in {render_element(self, category)} :
       /\ lastOp' = [Op("render_element", self.cls, id, self.design, self.initiated,
                          r.calls, r.result, EmptyDict, NoArg)
                       EXCEPT !.obj = self.id, !.on = category]
       /\ UNCHANGED <<default_options, heap, loaded_renderers, instantiated_renderers,
                      element_extensions, ELEMENT_COLUMNS, template_options, gathered,
                      loaders, tasks>>

\* the user writes into the options of an instance in place:
\* renderer.options[k][nk] = v
SetNestedOption(id, k, nk, v) ==
    LET self == instantiated_renderers[id]
    IN /\ k \in DOMAIN self.options
       /\ self.options[k].t = "d"
       /\ heap' = [heap EXCEPT ![self.options[k].v] = Update(@, [n \in {nk} |-> v])]
       /\ lastOp' = Op("set_option", self.cls, id, self.design, FALSE, <<>>, "ok",
                       EmptyDict, NoArg)
       /\ UNCHANGED <<default_options, loaded_renderers, instantiated_renderers,
                      element_extensions, ELEMENT_COLUMNS, template_options, gathered, loaders, tasks>>

\* renderer.options[k] = v
SetOption(id, k, v) ==
    \E self \in {instantiated_renderers[id]} :
    \E g \in {Collect(heap, template_options,
                      [instantiated_renderers EXCEPT
                           ![id].options = Update(@, [n \in {k} |-> S(v)])])} :
       /\ heap' = g.heap
       /\ template_options' = g.template_options
       /\ instantiated_renderers' = g.instantiated_renderers
       /\ lastOp' = Op("set_option", self.cls, id, self.design, FALSE, <<>>, "ok",
                       EmptyDict, NoArg)
       /\ UNCHANGED <<default_options, loaded_renderers, element_extensions,
                      ELEMENT_COLUMNS, gathered, loaders, tasks>>

\* some class is instantiated with some arguments
Instantiate(classes, designs, templates, options) ==
    \E cls \in classes, design \in designs, initiate_ \in BOOLEAN,
       render_template \in templates, render_options \in options :
       \E outcome \in Outcomes(cls, "_initate_renderer") :
           init(cls, design, initiate_, render_template, render_options, outcome)

\* QRenderer.get_renderer(name): two messages may be printed, then the
\* entry of __instantiated_renderers__ is returned (KeyError when there is
\* none)
get_renderer(nm) ==
    LET notLoaded == IF nm \notin loaded_renderers
                     THEN <<Call("print", "not yet been loaded")>> ELSE <<>>
        notInst == IF nm \notin DOMAIN instantiated_renderers
                   THEN <<Call("print", "not yet been instantiated")>> ELSE <<>>
    IN /\ lastOp' = [Op("get_renderer", "QRenderer", nm, "none",
                         nm \in loaded_renderers, notLoaded \o notInst,
                         IF nm \in DOMAIN instantiated_renderers
                         THEN "instance" ELSE "KeyError",
                         EmptyDict, NoArg)
                      EXCEPT !.obj = IF nm \in DOMAIN instantiated_renderers
                                     THEN instantiated_renderers[nm].id ELSE 0]
       /\ UNCHANGED <<default_options, heap, loaded_renderers, instantiated_renderers,
                      element_extensions, ELEMENT_COLUMNS, template_options, gathered,
                      loaders, tasks>>

Tracked == DOMAIN instantiated_renderers

(* Registries: classes are loaded and instantiated *)

LoadClasses == {"QRenderer", "R1", "R2", "R3"}
RegClasses == {"R1", "R3"}

Next ==
    \/ \E cls \in LoadClasses : load(cls)
    \/ Instantiate(RegClasses, {"d1"} \cup NonDesigns, {NoArg}, {NoArg})
    \/ \E nm \in RendererNames : get_renderer(nm)

Spec == Init /\ [][Next]_vars

(* Identity: two classes that declare the same name are loaded and       *)
(* instantiated                                                           *)

IdClasses == {"R1", "R5"}

NextIdentity ==
    \/ \E cls \in IdClasses : load(cls)
    \/ Instantiate(IdClasses, {"d1"}, {NoArg}, {NoArg})
    \/ \E nm \in {name(c) : c \in IdClasses} : get_renderer(nm)

SpecIdentity == Init /\ [][NextIdentity]_vars

(* Schema: the base and backends are loaded; two of the backends do not  *)
(* overwrite element_extensions                                           *)

SchemaClasses == {"R1", "R2", "R3", "R4"}

NextSchema == \E cls \in SchemaClasses \cup {"QRenderer"} : load(cls)

SpecSchema == Init /\ [][NextSchema]_vars

OptClasses == {"R2"}

(* Missing template: instances are created for a design whose store      *)
(* rejects the write of the template, and for one that takes it           *)

NextMissing ==
    \/ Instantiate(OptClasses, RejectingDesigns \cup {"d1"}, TemplateArgs, OptionArgs)
    \/ \E id \in Tracked, render_options \in OptionArgs, render_template \in TemplateArgs :
          UpdateOptions(id, render_options, render_template)

SpecMissing == Init /\ [][NextMissing]_vars

(* Options: instances are created and their options updated and written *)

WriteKeys == {"y"}

NextOptions ==
    \/ Instantiate(OptClasses, Designs, TemplateArgs, OptionArgs)
    \/ \E id \in Tracked, render_options \in OptionArgs, render_template \in TemplateArgs :
          UpdateOptions(id, render_options, render_template)
    \/ \E id \in Tracked, k \in TopKeys, nk \in NestKeys, v \in WriteVals :
          SetNestedOption(id, k, nk, v)
    \/ \E id \in Tracked, k \in WriteKeys, v \in WriteVals :
          SetOption(id, k, v)

SpecOptions == Init /\ [][NextOptions]_vars

(* Concurrent construction: two tasks construct renderers, and the
   statements of the one interleave with those of the other.  Each task
   runs __init__ with initiate=False and no render_options; a step is one
   statement of __init__, get_template_options or
   _register_class_with_design. *)

RaceClasses == {"R2"}

\* (variant: the entry is taken to be absent, whatever the store holds)
AbsentAlways(store, template_key) == template_key = template_key

\* template_key not in design.template_options
Absent(store, template_key) == template_key \notin DOMAIN store

Others == <<default_options, loaded_renderers, element_extensions, ELEMENT_COLUMNS,
            lastOp, gathered, loaders>>

\* __init__ up to the call of update_options: the object is created and
\* registered
TBegin(t, cls, design, render_template) ==
    /\ tasks[t].pc = "idle"
    /\ is_design(design)
    /\ \E self \in {NewRenderer(cls, design)} :
       \E g \in {Collect(heap, template_options,
                         Update(instantiated_renderers, [n \in {name(cls)} |-> self]))} :
          /\ instantiated_renderers' = g.instantiated_renderers
          /\ heap' = g.heap
          /\ tasks' = [tasks EXCEPT ![t] =
                          [IdleTask EXCEPT !.pc = "check", !.self = self,
                                           !.arg = render_template,
                                           !.after = {u \in Tasks : tasks[u].pc = "done"}]]
    /\ UNCHANGED template_options
    /\ UNCHANGED Others

\* get_template_options: is the entry absent?
TCheck(t) ==
    /\ tasks[t].pc = "check"
    /\ tasks' = [tasks EXCEPT ![t].pc =
                    IF Absent(template_options[tasks[t].self.design],
                              get_unique_class_name(tasks[t].self.cls))
                    THEN "recheck" ELSE "read"]
    /\ UNCHANGED <<heap, instantiated_renderers, template_options>>
    /\ UNCHANGED Others

\* _register_class_with_design: is the entry absent?
TRecheck(t) ==
    /\ tasks[t].pc = "recheck"
    /\ tasks' = [tasks EXCEPT ![t].pc =
                    IF Absent(template_options[tasks[t].self.design],
                              get_unique_class_name(tasks[t].self.cls))
                    THEN "compute" ELSE "read"]
    /\ UNCHANGED <<heap, instantiated_renderers, template_options>>
    /\ UNCHANGED Others

\* _register_class_with_design: the template to store, deep-copied
TCompute(t) ==
    /\ tasks[t].pc = "compute"
    /\ tasks' = [tasks EXCEPT ![t].pc = "write",
                              ![t].tmpl =
                                  Pure(heap, IF Falsy(tasks[t].arg)
                                             THEN gather_all_children_default_options(
                                                      tasks[t].self.cls)
                                             ELSE tasks[t].arg.d)]
    /\ UNCHANGED <<heap, instantiated_renderers, template_options>>
    /\ UNCHANGED Others

\* _register_class_with_design: the copy is stored under the key
TWrite(t) ==
    /\ tasks[t].pc = "write"
    /\ \E self \in {tasks[t].self} :
       \E c \in {DeepCopy(heap, tasks[t].tmpl, <<"tmpl", self.design, self.cls>>)} :
       \E g \in {Collect(c.heap,
                         [template_options EXCEPT ![self.design] =
                             StoreSet(self.design, @, get_unique_class_name(self.cls),
                                      c.top)],
                         instantiated_renderers)} :
          /\ heap' = g.heap
          /\ template_options' = g.template_options
          /\ tasks' = [tasks EXCEPT ![t].pc = "read",
                                    ![t].wrote =
                                        1 + Cardinality({u \in Tasks : tasks[u].wrote > 0})]
    /\ UNCHANGED instantiated_renderers
    /\ UNCHANGED Others

\* get_template_options returns a deep copy of the entry, update_options
\* puts it in the options of the object, and __init__ sets the status
TRead(t) ==
    /\ tasks[t].pc = "read"
    /\ \E self \in {tasks[t].self} :
       \E nm \in {name(self.cls)} :
       \E c \in {DeepCopy(heap,
                          StoreGet(template_options[self.design],
                                   get_unique_class_name(self.cls)),
                          <<"inst", nm, "">>)} :
       \E done \in {[self EXCEPT !.options = c.top, !.status = "Init Completed"]} :
       \E tracked \in {/\ nm \in DOMAIN instantiated_renderers
                        /\ instantiated_renderers[nm].id = self.id} :
       \E g \in {IF tracked
                 THEN Collect(c.heap, template_options,
                              [instantiated_renderers EXCEPT ![nm] = done])
                 ELSE Collect(heap, template_options, instantiated_renderers)} :
          /\ heap' = g.heap
          /\ instantiated_renderers' = g.instantiated_renderers
          /\ tasks' = [tasks EXCEPT ![t].pc = "done",
                                    ![t].self = [done EXCEPT !.options = EmptyDict],
                                    ![t].copy = Pure(c.heap, c.top)]
    /\ UNCHANGED template_options
    /\ UNCHANGED Others

NextRace ==
    \/ \E t \in Tasks, cls \in RaceClasses, design \in Designs,
          render_template \in TemplateArgs :
          TBegin(t, cls, design, render_template)
    \/ \E t \in Tasks : TCheck(t)
    \/ \E t \in Tasks : TRecheck(t)
    \/ \E t \in Tasks : TCompute(t)
    \/ \E t \in Tasks : TWrite(t)
    \/ \E t \in Tasks : TRead(t)

SpecRace == Init /\ [][NextRace]_vars

(* Construction: instances are created with options that are mappings or
   not, and their options updated *)

CtorClasses == {"R1", "R3"}

CtorOptions == OptionArgs \cup {Scalar(1)}

NextConstruct ==
    \/ Instantiate(CtorClasses, {"d1"} \cup NonDesigns, {NoArg}, CtorOptions)
    \/ \E id \in Tracked, render_options \in CtorOptions :
          UpdateOptions(id, render_options, NoArg)
    \/ \E nm \in RendererNames : get_renderer(nm)

SpecConstruct == Init /\ [][NextConstruct]_vars

(* Lifecycle: instances are created, initiated and rendered *)

LifeClasses == {"R1", "R3"}

NextLifecycle ==
    \/ Instantiate(LifeClasses, {"d1"}, {NoArg}, {NoArg})
    \/ \E id \in Tracked, re_initiate \in BOOLEAN :
          \E outcome \in Outcomes(instantiated_renderers[id].cls, "_initate_renderer") :
              Initate(id, re_initiate, outcome)
    \/ \E id \in Tracked :
          \E o_init \in Outcomes(instantiated_renderers[id].cls, "_initate_renderer"),
             o_chips \in Outcomes(instantiated_renderers[id].cls, "render_chips"),
             o_comps \in Outcomes(instantiated_renderers[id].cls, "render_components") :
              RenderDesign(id, o_init, o_chips, o_comps)

SpecLifecycle == Init /\ [][NextLifecycle]_vars

(* Rendering: instances are created and their rendering methods called.   *)
(* R3 overwrites render_chips alone, R1 render_chips and                  *)
(* render_components, R5 all but render_element.                          *)

RenderClasses == {"R1", "R3", "R5"}

NextRender ==
    \/ Instantiate(RenderClasses, {"d1"}, {NoArg}, {NoArg})
    \/ \E id \in Tracked :
          \E o_init \in Outcomes(instantiated_renderers[id].cls, "_initate_renderer"),
             o_chips \in Outcomes(instantiated_renderers[id].cls, "render_chips"),
             o_comps \in Outcomes(instantiated_renderers[id].cls, "render_components") :
              RenderDesign(id, o_init, o_chips, o_comps)
    \/ \E id \in Tracked, selection \in Selections, failAt \in 0..Len(Components) :
          RenderComponents(id, selection, failAt)
    \/ \E id \in Tracked, method \in HookMethods : CallHook(id, method)
    \/ \E id \in Tracked, category \in Categories : RenderElement(id, category)

SpecRender == Init /\ [][NextRender]_vars

----------------------------------------------------------------------------
(* Properties of the registries (Spec) *)

\* C1 (as claimed): a load of a class whose name is already loaded is a
\* no-op: it calls neither populate_element_extentions nor
\* add_renderer_extension, and it leaves the loaded set, the schema columns
\* and the class's element_extensions as they were.
C1_ReloadIsNoOp ==
    [][(lastOp'.op = "load" /\ name(lastOp'.cls) \in loaded_renderers) =>
          /\ lastOp'.calls = <<>>
          /\ UNCHANGED <<loaded_renderers, ELEMENT_COLUMNS, element_extensions>>]_vars

\* the columns of cls that another identity has claimed in the schema
ClaimedByOther(cls) ==
    LET td == element_table_data(cls)
    IN {tc \in UNION {{<<table, col>> : col \in DOMAIN td[table]} : table \in DOMAIN td} :
           /\ tc[1] \in DOMAIN ELEMENT_COLUMNS
           /\ tc[2] \in DOMAIN ELEMENT_COLUMNS[tc[1]]
           /\ ELEMENT_COLUMNS[tc[1]][tc[2]].owner /= name(cls)}

\* C7: a load of a class that declares a column which another identity has
\* claimed under the same category fails with SchemaCollision, and leaves the
\* schema registry (and the loaded set) as it was.
C7_CollisionFailsLoad ==
    [][(lastOp'.op = "load" /\ ClaimedByOther(lastOp'.cls) /= {}) =>
          /\ lastOp'.result = "SchemaCollision"
          /\ UNCHANGED <<ELEMENT_COLUMNS, loaded_renderers>>]_vars

\* R2's load (path.width as int) failed, and path still has only R1's
\* width: float
C7_Witness ==
    /\ lastOp.op = "load"
    /\ lastOp.cls = "R2"
    /\ lastOp.result = "SchemaCollision"
    /\ "r2" \notin loaded_renderers
    /\ Columns(ELEMENT_COLUMNS, "path") = [c \in {"width"} |-> "float"]
    /\ ELEMENT_COLUMNS["path"]["width"].owner = "r1"

\* C10: an instantiation against an object that is not a design fails with
\* the assertion error, runs no hook, and leaves the instance registry, the
\* loaded set and every design's template store as they were.
C10_NonDesignRejected ==
    [][(lastOp'.op = "__init__" /\ ~is_design(lastOp'.design)) =>
          /\ lastOp'.result = "AssertionError"
          /\ lastOp'.calls = <<>>
          /\ lastOp'.inst = ""
          /\ UNCHANGED <<instantiated_renderers, loaded_renderers, template_options>>]_vars

\* an instantiation against a non-design failed while an instance of another
\* class was registered, a class loaded and a template stored
C10_Witness ==
    /\ lastOp.op = "__init__"
    /\ lastOp.design \in NonDesigns
    /\ lastOp.result = "AssertionError"
    /\ name(lastOp.cls) \notin DOMAIN instantiated_renderers
    /\ instantiated_renderers /= <<>>
    /\ loaded_renderers /= {}
    /\ \E d \in Designs : template_options[d] /= <<>>

\* the object registered under each name
TrackedIds(ir) == [n \in DOMAIN ir |-> ir[n].id]

\* C11: the registry holds one instance per name: an instantiation that
\* succeeds puts its new object under the name of its class and leaves the
\* entry of every other name as it was, no call that is not an instantiation
\* and no instantiation that fails on its design or in its hook changes
\* which object a name holds, and get_renderer returns the object the name
\* holds (so the one instantiated last under that name).
C11_LatestInstanceTracked ==
    [][/\ (lastOp'.op = "__init__" /\ lastOp'.result = "ok") =>
            LET n == name(lastOp'.cls)
            IN /\ DOMAIN instantiated_renderers' = DOMAIN instantiated_renderers \cup {n}
               /\ lastOp'.obj \notin {instantiated_renderers[m].id :
                                          m \in DOMAIN instantiated_renderers}
               /\ instantiated_renderers'[n].id = lastOp'.obj
               /\ instantiated_renderers'[n].cls = lastOp'.cls
               /\ \A m \in DOMAIN instantiated_renderers \ {n} :
                      instantiated_renderers'[m] = instantiated_renderers[m]
       /\ (lastOp'.op = "__init__" =>
               lastOp'.result \in {"AssertionError", "HookRaised"}) =>
            TrackedIds(instantiated_renderers') = TrackedIds(instantiated_renderers)
       /\ (lastOp'.op = "get_renderer" /\ lastOp'.inst \in DOMAIN instantiated_renderers) =>
            /\ lastOp'.result = "instance"
            /\ lastOp'.obj = instantiated_renderers[lastOp'.inst].id]_vars

\* get_renderer returned the third object created, which had replaced an
\* earlier one, while another name holds an instance too
C11_Witness ==
    /\ lastOp.op = "get_renderer"
    /\ lastOp.result = "instance"
    /\ lastOp.obj = 3
    /\ instantiated_renderers[lastOp.inst].id = 3
    /\ Cardinality(DOMAIN instantiated_renderers) = 2

\* C14 (as claimed): get_renderer returns an instance only for a name that
\* is loaded and holds an instance; for any other name the caller gets the
\* not-found outcome (the KeyError of the lookup); the loaded set and the
\* instance registry are left as they were.
C14_NeedsLoadedAndInstantiated ==
    [][lastOp'.op = "get_renderer" =>
          /\ lastOp'.result = "instance" <=>
                 (/\ lastOp'.inst \in loaded_renderers
                  /\ lastOp'.inst \in DOMAIN instantiated_renderers)
          /\ lastOp'.result /= "instance" => lastOp'.result = "KeyError"
          /\ UNCHANGED <<loaded_renderers, instantiated_renderers>>]_vars

----------------------------------------------------------------------------
(* Properties of the keys (SpecIdentity) *)

\* C12 (as claimed): one identity value keys every registry and store: the
\* key under which an instantiation registers its instance is a key of the
\* design's template store and, once the class is loaded, a member of the
\* loaded set; so an instance never takes the slot of an instance of a
\* different class unless the two classes have the same template-store key.
C12_OneKeyEverywhere ==
    [][(lastOp'.op = "__init__" /\ lastOp'.result = "ok") =>
          LET key == CHOOSE n \in DOMAIN instantiated_renderers' :
                         instantiated_renderers'[n].id = lastOp'.obj
          IN /\ key \in DOMAIN template_options'[lastOp'.design]
             /\ lastOp'.cls \in loaders => key \in loaded_renderers
             /\ (/\ key \in DOMAIN instantiated_renderers
                 /\ instantiated_renderers[key].cls /= lastOp'.cls) =>
                    get_unique_class_name(instantiated_renderers[key].cls)
                        = get_unique_class_name(lastOp'.cls)]_vars

\* C13 (as claimed): a load or an instantiation of a class whose name is
\* the name of a different class that is loaded is rejected with an error,
\* and leaves the schema columns and the instance registered under that name
\* as they were.
C13_NameCollisionRejected ==
    [][(/\ lastOp'.op \in {"load", "__init__"}
        /\ \E c \in loaders : c /= lastOp'.cls /\ name(c) = name(lastOp'.cls)) =>
          /\ lastOp'.result \notin {"True", "ok"}
          /\ UNCHANGED ELEMENT_COLUMNS
          /\ name(lastOp'.cls) \in DOMAIN instantiated_renderers =>
                 /\ name(lastOp'.cls) \in DOMAIN instantiated_renderers'
                 /\ instantiated_renderers'[name(lastOp'.cls)] =
                        instantiated_renderers[name(lastOp'.cls)]]_vars

----------------------------------------------------------------------------
(* Properties of the schema extensions (SpecSchema) *)

\* cls.element_extensions
ExtensionOf(ee, cls) == ee[ExtOwner(cls)]

\* the columns of an extension that the class does not declare
Undeclared(ext, cls) ==
    LET td == element_table_data(cls)
    IN UNION {{<<table, col>> : col \in DOMAIN ext[table]} : table \in DOMAIN ext}
       \ UNION {{<<table, col>> : col \in DOMAIN td[table]} : table \in DOMAIN td}

\* C15 (as claimed): a load that fails leaves the loaded set and the schema
\* columns as they were, and leaves the schema extension of every class
\* loaded before as it was.
C15_FailedLoadLeavesNothing ==
    [][(lastOp'.op = "load" /\ lastOp'.result /= "True") =>
          /\ UNCHANGED <<loaded_renderers, ELEMENT_COLUMNS>>
          /\ \A c \in loaders \ {lastOp'.cls} :
                 ExtensionOf(element_extensions', c) = ExtensionOf(element_extensions, c)]_vars

\* C16 (as claimed): a load of one backend leaves the schema extension of
\* every other backend as it was, and the extension it registers has only
\* columns that the class declares.
C16_LoadTouchesOwnExtensionOnly ==
    [][lastOp'.op = "load" =>
          /\ \A c \in SchemaClasses \ {lastOp'.cls} :
                 ExtensionOf(element_extensions', c) = ExtensionOf(element_extensions, c)
          /\ lastOp'.result = "True" =>
                 Undeclared(ExtensionOf(element_extensions', lastOp'.cls), lastOp'.cls) = {}]_vars

----------------------------------------------------------------------------
(* Properties of the templates and options (SpecOptions) *)

StoredValue(h, to, design, cls) == Pure(h, to[design][get_unique_class_name(cls)])

\* C4: once a design's store has an entry for a class, every later
\* instantiation or update_options for that design and class gets a value
\* equal to the stored entry and leaves the entry as it was, whatever
\* render_template is passed.
C4_FirstWriteWins ==
    [][(/\ lastOp'.op \in {"__init__", "update_options"}
        /\ lastOp'.result = "ok"
        /\ HasTemplate(lastOp'.design, lastOp'.cls)) =>
          /\ lastOp'.ret = StoredValue(heap, template_options, lastOp'.design, lastOp'.cls)
          /\ StoredValue(heap', template_options', lastOp'.design, lastOp'.cls)
               = StoredValue(heap, template_options, lastOp'.design, lastOp'.cls)]_vars

\* an instantiation passed a render_template that differs from the entry
\* already stored, and got the stored entry
C4_Witness ==
    /\ lastOp.op = "__init__"
    /\ lastOp.result = "ok"
    /\ lastOp.pre
    /\ ~Falsy(lastOp.arg)
    /\ lastOp.arg.d /= lastOp.ret
    /\ lastOp.ret = StoredValue(heap, template_options, lastOp.design, lastOp.cls)

\* C23: when the store of the design has no entry for the class, an
\* instantiation or update_options stores the render_template it was given,
\* an empty mapping included, and the gathered defaults of the class only
\* when no render_template was given.
C23_OverrideStoredAsGiven ==
    [][(/\ lastOp'.op \in {"__init__", "update_options"}
        /\ lastOp'.result = "ok"
        /\ ~HasTemplate(lastOp'.design, lastOp'.cls)) =>
          StoredValue(heap', template_options', lastOp'.design, lastOp'.cls)
            = IF lastOp'.arg.given
              THEN Pure(heap, lastOp'.arg.d)
              ELSE Pure(heap, gather_all_children_default_options(lastOp'.cls))]_vars

\* C5: no call changes the value of an entry of a design's template store:
\* not an instantiation with render_options, not update_options, not a write
\* into the options of an instance, nested or not.
C5_TemplateNeverChanges ==
    [][\A d \in Designs : \A k \in DOMAIN template_options[d] :
          /\ k \in DOMAIN template_options'[d]
          /\ Pure(heap', template_options'[d][k]) = Pure(heap, template_options[d][k])]_vars

\* a nested key that the stored template has was written in the options of
\* an instance, and the two now differ under that key
C5_Witness ==
    /\ lastOp.op = "set_option"
    /\ \E id \in DOMAIN instantiated_renderers :
          LET self == instantiated_renderers[id]
              t == StoredValue(heap, template_options, self.design, self.cls)
              o == Pure(heap, self.options)
          IN \E k \in DOMAIN t \cap DOMAIN o :
                /\ t[k].t = "n"
                /\ o[k].t = "n"
                /\ \E nk \in DOMAIN t[k].v \cap DOMAIN o[k].v : t[k].v[nk] /= o[k].v[nk]

\* C17: when the store of the design has no entry for the class after the
\* template was resolved, logger.error is called, no exception reaches the
\* caller, and the options of the instance are what they were (nothing, for
\* a new instance) updated with the render_options given.
C17_TemplateMissingNonFatal ==
    [][(/\ lastOp'.op \in {"__init__", "update_options"}
        /\ lastOp'.result \notin {"AssertionError", "HookRaised"}
        /\ get_unique_class_name(lastOp'.cls) \notin DOMAIN template_options'[lastOp'.design]) =>
          /\ lastOp'.result = "ok"
          /\ \E i \in DOMAIN lastOp'.calls : lastOp'.calls[i].call = "logger.error"
          /\ lastOp'.ret = EmptyDict
          /\ lastOp'.inst \in DOMAIN instantiated_renderers'
          /\ instantiated_renderers'[lastOp'.inst].status = "Init Completed"
          /\ Pure(heap', instantiated_renderers'[lastOp'.inst].options) =
                 Update(IF lastOp'.op = "update_options"
                        THEN Pure(heap, instantiated_renderers[lastOp'.inst].options)
                        ELSE EmptyDict,
                        IF Falsy(lastOp'.opts) THEN EmptyDict ELSE lastOp'.opts.d)]_vars

\* an instance was created with render_options for the design whose store
\* rejects the write: the error was logged and its options are the
\* render_options alone
C17_Witness ==
    /\ lastOp.op = "__init__"
    /\ lastOp.design \in RejectingDesigns
    /\ lastOp.result = "ok"
    /\ ~Falsy(lastOp.opts)
    /\ template_options[lastOp.design] = [k \in {} |-> EmptyDict]
    /\ lastOp.calls[Len(lastOp.calls)] = Call("logger.error", "ok")
    /\ Pure(heap, instantiated_renderers[lastOp.inst].options) = lastOp.opts.d

----------------------------------------------------------------------------
(* Properties of the lifecycle (SpecLifecycle) *)

\* the calls of the log that ran the hook
Applied(log) == {i \in DOMAIN log : log[i].result /= "False"}

\* C6: on every instance, a call of initate without force runs the hook
\* only if it is the first call on the instance (so calls without force run
\* it at most once, and every later one returns False), every call with force
\* runs it, and the hook has run once per call that was not skipped.
C6_InitiateLatch ==
    \A id \in DOMAIN instantiated_renderers :
        LET self == instantiated_renderers[id]
            log == self.log
        IN /\ \A i \in DOMAIN log : ~log[i].force => (i \in Applied(log) <=> i = 1)
           /\ Cardinality({i \in Applied(log) : ~log[i].force}) <= 1
           /\ \A i \in DOMAIN log : log[i].force => i \in Applied(log)
           /\ \A i \in DOMAIN log : log[i].result = "False" <=> log[i].hook = "none"
           /\ self.hookRuns = Cardinality(Applied(log))

\* one instance got two calls without force and ran the hook once, another
\* got two calls with force and ran it twice
C6_Witness ==
    /\ \E id \in DOMAIN instantiated_renderers :
          LET self == instantiated_renderers[id]
          IN /\ Len(self.log) = 2
             /\ \A i \in 1..2 : ~self.log[i].force
             /\ self.hookRuns = 1
    /\ \E id \in DOMAIN instantiated_renderers :
          LET self == instantiated_renderers[id]
          IN /\ Len(self.log) = 2
             /\ \A i \in 1..2 : self.log[i].force
             /\ self.hookRuns = 2

CallNames(calls) == [i \in DOMAIN calls |-> calls[i].call]

\* C8: render_design first calls initate, which runs the hook only if the
\* latch is not set; then, if that did not fail, render_chips; then, only if
\* render_chips returned, render_components.
C8_RenderOrder ==
    lastOp.op = "render_design" =>
        LET calls == lastOp.calls
            hook == IF lastOp.pre THEN <<>> ELSE <<"_initate_renderer">>
            ok(i) == calls[i].outcome \in {"ok", "True", "False"}
        IN /\ CallNames(calls) \in
                 {<<"initate">> \o hook,
                  <<"initate">> \o hook \o <<"render_chips">>,
                  <<"initate">> \o hook \o <<"render_chips", "render_components">>}
           /\ \A i \in DOMAIN calls :
                 calls[i].call \in {"render_chips", "render_components"} =>
                     \A j \in 1..(i-1) : ok(j)
           /\ (\A i \in DOMAIN calls : ok(i)) =>
                 /\ calls[Len(calls)].call = "render_components"
                 /\ lastOp.result = "None"
           /\ (\E i \in DOMAIN calls : ~ok(i)) => lastOp.result /= "None"

\* render_design on an instance whose latch was not set ran the hook, the
\* chips and the components, in this order
C8_Witness ==
    /\ lastOp.op = "render_design"
    /\ ~lastOp.pre
    /\ lastOp.result = "None"
    /\ CallNames(lastOp.calls) =
           <<"initate", "_initate_renderer", "render_chips", "render_components">>

\* C9: when the hook fails in a call of initate, the caller gets the
\* failure, the latch is set, and every later call without force is skipped.
C9_FailedHookKeepsLatch ==
    /\ \A id \in DOMAIN instantiated_renderers :
          LET self == instantiated_renderers[id]
              log == self.log
          IN \A i \in DOMAIN log :
                log[i].hook = "raise" =>
                    /\ log[i].result = "HookRaised"
                    /\ self.initiated
                    /\ \A j \in DOMAIN log : (j > i /\ ~log[j].force) => j \notin Applied(log)
    /\ lastOp.op \in {"initate", "__init__", "render_design"} =>
          ((\E i \in DOMAIN lastOp.calls :
               lastOp.calls[i] = Call("_initate_renderer", "raise"))
           => lastOp.result = "HookRaised")

\* the hook failed in the first call on an instance, and the next call
\* without force was skipped
C9_Witness ==
    \E id \in DOMAIN instantiated_renderers :
        LET log == instantiated_renderers[id].log
        IN /\ Len(log) = 2
           /\ log[1].hook = "raise"
           /\ ~log[2].force
           /\ log[2].result = "False"
           /\ lastOp.op = "initate"
           /\ lastOp.result = "False"

\* C22 (as claimed): an instance whose status is 'Init Completed' has its
\* latch set and its hook run at least once.
C22_CompletedImpliesInitiated ==
    \A id \in DOMAIN instantiated_renderers :
        instantiated_renderers[id].status = "Init Completed" =>
            /\ instantiated_renderers[id].initiated
            /\ instantiated_renderers[id].hookRuns >= 1

\* C22 (amended): the status becomes 'Init Completed' when the constructor
\* returns, whether initate was called or not, and stays; the latch is set
\* exactly when initate has called the hook at least once, whatever the
\* status is.
C22_StatusFollowsConstruction ==
    /\ \A id \in DOMAIN instantiated_renderers :
          LET self == instantiated_renderers[id]
          IN /\ self.status = "Init Completed"
             /\ self.initiated <=> self.hookRuns >= 1
             /\ self.initiated <=> self.log /= <<>>
    /\ (lastOp.op = "__init__" /\ lastOp.result = "ok") =>
          instantiated_renderers[lastOp.inst].status = "Init Completed"

\* an instance constructed with initiate=False: its status is
\* 'Init Completed', its latch is not set and its hook has never run
C22_Witness ==
    /\ lastOp.op = "__init__"
    /\ lastOp.result = "ok"
    /\ lastOp.calls = <<>>
    /\ instantiated_renderers[lastOp.inst].status = "Init Completed"
    /\ ~instantiated_renderers[lastOp.inst].initiated
    /\ instantiated_renderers[lastOp.inst].hookRuns = 0

----------------------------------------------------------------------------
(* Properties of the concurrent construction (SpecRace) *)

SameEntry(t, u) ==
    /\ t /= u
    /\ tasks[t].pc = "done"
    /\ tasks[u].pc = "done"
    /\ tasks[t].self.design = tasks[u].self.design
    /\ tasks[t].self.cls = tasks[u].self.cls

\* C21: of two constructors for the same design and class, when the second
\* began after the first had returned, only the first has written the
\* entry, the entry is the template of the first and both objects got a
\* copy of it (first write wins); and an object has options that differ
\* from the entry finally stored only when the two constructors overlapped,
\* both found the entry absent and both wrote, the other one last.
C21_RaceOnlyWhenInterleaved ==
    \A t, u \in Tasks :
        SameEntry(t, u) =>
            LET stored == StoredValue(heap, template_options, tasks[t].self.design,
                                      tasks[t].self.cls)
            IN /\ t \in tasks[u].after =>
                     /\ tasks[t].wrote = 1
                     /\ tasks[u].wrote = 0
                     /\ stored = tasks[t].tmpl
                     /\ tasks[t].copy = stored
                     /\ tasks[u].copy = stored
               /\ tasks[t].copy /= stored =>
                     /\ tasks[u].after = {}
                     /\ tasks[t].after = {}
                     /\ tasks[t].wrote = 1
                     /\ tasks[u].wrote = 2
                     /\ tasks[t].copy = tasks[t].tmpl
                     /\ stored = tasks[u].tmpl

\* two constructors for the same design and class, with different
\* render_template, overlapped: both wrote the entry, and the object of
\* the first writer has options copied from a template that is not the
\* entry the store holds in the end
C21_Witness ==
    \E t, u \in Tasks :
        /\ SameEntry(t, u)
        /\ tasks[t].arg /= tasks[u].arg
        /\ tasks[t].wrote = 1
        /\ tasks[u].wrote = 2
        /\ tasks[t].copy /= StoredValue(heap, template_options, tasks[t].self.design,
                                        tasks[t].self.cls)
        /\ tasks[u].copy = StoredValue(heap, template_options, tasks[t].self.design,
                                       tasks[t].self.cls)

----------------------------------------------------------------------------
(* Properties of the construction (SpecConstruct) *)

\* C24: every instance the registry holds has the status 'Init Completed',
\* and a constructor that fails, on its design, in its hook or in its
\* options, leaves the registry as it was.
C24_OnlyConstructedTracked ==
    [][/\ \A n \in DOMAIN instantiated_renderers' :
             instantiated_renderers'[n].status = "Init Completed"
       /\ (lastOp'.op = "__init__" /\ lastOp'.result /= "ok") =>
             instantiated_renderers' = instantiated_renderers]_vars

----------------------------------------------------------------------------
(* Properties of the rendering methods (SpecRender) *)

\* the components that the calls of render_component were made on
RenderedOf(calls) == [i \in DOMAIN calls |-> calls[i].on]

C19_UnimplementedHooksRaise ==
    /\ (lastOp.op = "hook" /\ lastOp.on \notin Overrides(lastOp.cls)) =>
           /\ lastOp.calls = <<Call(lastOp.on, "NotImplementedError")>>
           /\ lastOp.result = "NotImplementedError"
    /\ (lastOp.op = "render_components" /\ "render_components" \notin Overrides(lastOp.cls)) =>
           /\ lastOp.calls = <<>>
           /\ lastOp.result = "NotImplementedError"
    /\ (/\ lastOp.op = "render_design"
        /\ {"render_chips", "render_components"} \ Overrides(lastOp.cls) /= {}) =>
           /\ lastOp.result /= "None"
           /\ (\A i \in DOMAIN lastOp.calls : lastOp.calls[i].outcome /= "raise") =>
                  /\ lastOp.result = "NotImplementedError"
                  /\ lastOp.calls[Len(lastOp.calls)].outcome = "NotImplementedError"

\* render_design on an instance of R3, which overwrites render_chips alone:
\* the chips were rendered, render_components raised NotImplementedError and
\* the caller got it
C19_Witness ==
    /\ lastOp.op = "render_design"
    /\ lastOp.cls = "R3"
    /\ lastOp.result = "NotImplementedError"
    /\ Len(lastOp.calls) >= 2
    /\ lastOp.calls[Len(lastOp.calls) - 1] = Call("render_chips", "ok")
    /\ lastOp.calls[Len(lastOp.calls)] = Call("render_components", "NotImplementedError")

\* C20 (as claimed): render_element passes a path element to
\* render_element_path and a polygon element to render_element_poly, and
\* fails, calling no hook, on an element of any other category.
C20_ElementDispatch ==
    lastOp.op = "render_element" =>
        /\ lastOp.on = "path" => CallNames(lastOp.calls) = <<"render_element_path">>
        /\ lastOp.on = "poly" => CallNames(lastOp.calls) = <<"render_element_poly">>
        /\ lastOp.on \notin {"path", "poly"} =>
               /\ lastOp.calls = <<>>
               /\ lastOp.result /= "None"

----------------------------------------------------------------------------
(* Gathering the defaults: R1 and its subclass R2 declare any              *)
(* default_options (or none), and the defaults of a class are gathered.    *)

GKeys == {"x", "y"}
GNests == UNION {[ks -> 1..GMaxScalar] : ks \in SUBSET NestKeys}
GVals == {S(n) : n \in 1..GMaxScalar} \cup {N(m) : m \in GNests}
GDicts == UNION {[ks -> GVals] : ks \in SUBSET GKeys}
GDecls == UNION {[cs -> GDicts] : cs \in SUBSET {"R1", "R2"}}

InitGather ==
    /\ \E decl \in GDecls \cup {Declared} :
          /\ default_options = ClassDicts(decl).default_options
          /\ heap = ClassDicts(decl).heap
    /\ InitRegistries

Gather(cls) ==
    /\ gathered' = [cls |-> cls, options |-> gather_all_children_default_options(cls)]
    /\ UNCHANGED <<default_options, heap, loaded_renderers, instantiated_renderers,
                   element_extensions, ELEMENT_COLUMNS, template_options, lastOp,
                   loaders, tasks>>

NextGather == \E cls \in Classes : Gather(cls)

SpecGather == InitGather /\ [][NextGather]_vars

----------------------------------------------------------------------------
(* Properties of the gathered defaults (SpecGather) *)

\* the value of the default_options a class declares
PureDecl(c) == Pure(heap, default_options[c])

GatheredValue == Pure(heap, gathered.options)

ScenarioDeclared ==
    /\ DOMAIN default_options = {"R1", "R2"}
    /\ PureDecl("R1") = DeclR1
    /\ PureDecl("R2") = DeclR2

\* the keys under which both R1 and R2 declare a nested dict
BothNested ==
    {k \in TopKeys : /\ DOMAIN default_options = {"R1", "R2"}
                     /\ k \in DOMAIN default_options["R1"]
                     /\ k \in DOMAIN default_options["R2"]
                     /\ default_options["R1"][k].t = "d"
                     /\ default_options["R2"][k].t = "d"}

DeepMerged ==
    [k \in TopKeys |->
        IF k = "x" THEN S(1)
        ELSE IF k = "z" THEN S(3)
        ELSE N([n \in {"a", "b"} |-> IF n = "a" THEN 1 ELSE 2])]

ShallowMerged ==
    [k \in TopKeys |->
        IF k = "x" THEN S(1)
        ELSE IF k = "z" THEN S(3)
        ELSE N([n \in {"b"} |-> 2])]

ScalarDeclarers(cls, k) ==
    {i \in 1..Len(getmro(cls)) :
        /\ getmro(cls)[i] \in DOMAIN default_options
        /\ k \in DOMAIN default_options[getmro(cls)[i]]
        /\ default_options[getmro(cls)[i]][k].t = "s"}

\* the most derived class of the chain of cls that declares key k
MostDerivedDeclaring(cls, k) ==
    LET m == getmro(cls)
        i == CHOOSE j \in 1..Len(m) :
                 /\ m[j] \in DOMAIN default_options
                 /\ k \in DOMAIN default_options[m[j]]
                 /\ \A l \in 1..(j-1) : ~(/\ m[l] \in DOMAIN default_options
                                          /\ k \in DOMAIN default_options[m[l]])
    IN m[i]

\* C3: the defaults are gathered from the most general class of the chain to
\* the most specific one, so every key that more than one class of the chain
\* declares with a scalar value has, in the result, the value declared by the
\* most derived class that declares it.
C3_MostDerivedScalarWins ==
    gathered.cls \in Classes =>
        \A k \in TopKeys :
            Cardinality(ScalarDeclarers(gathered.cls, k)) > 1 =>
                /\ k \in DOMAIN GatheredValue
                /\ GatheredValue[k] =
                       default_options[MostDerivedDeclaring(gathered.cls, k)][k]

\* the defaults of R2 were gathered while R1 and R2 declare different scalars
\* under the same key
C3_Witness ==
    /\ gathered.cls = "R2"
    /\ \E k \in TopKeys :
          /\ Cardinality(ScalarDeclarers("R2", k)) > 1
          /\ default_options["R1"][k] /= default_options["R2"][k]

====
